# A verification of csapp_selfstudy

The repository is one person's worked exercises from *Computer Systems: A
Programmer's Perspective*: a dozen small but real programs in C. Several of
them are concurrent (threads and semaphores, processes and signals, `select`),
two are storage allocators, and all servers stand on the library `src/csapp.c`.
This directory holds TLA+ models of the programs whose correctness depends on
the order of steps, TLC instances of them, and TLAPS proofs of their safety.

Contents: [inventory](#inventory) · [modules](#modules) · [runs](#runs) ·
[fairness](#fairness) · [proofs](#proofs) · [what the models show](#what-the-models-show) ·
[what is not modelled](#what-is-not-modelled) · [plan](#plan)

## Inventory

| part | state | operations | interacts through | what makes it correct |
|---|---|---|---|---|
| **sbuf** (`concurrent/server1238.c` 130-183) | `buf`, `front`, `rear`, semaphores `mutex`, `slots`, `items` | `sbuf_insert`, `sbuf_remove`, `isFULL`, `isEMPTY` | called by any thread | it is a bounded FIFO queue; semaphores exact; no lost wake-up; answers of `isFULL`/`isEMPTY` true while the lock is held |
| **prethreaded web server** (`server1238.c` 45-128) | `threads[]` (tid, mutex), `nthreads`, one descriptor per thread | `main`, `server_thread`, `change_thread`, `create_threads` | sbuf, `pthread_cancel`, one mutex per slot | no connection lost or served twice when the pool is halved; no service cut short; pool records agree with the living threads |
| **event-driven echo server** (`concurrent/server1223.c`) | `pool`: `maxfd`, `read_set`, `ready_set`, `nready`, `maxi`, `clientfd`, `clientrio` | `init_pool`, `add_client`, `check_clients`, `select` loop | RIO, the kernel's descriptor table | records agree; no ready client skipped; the single thread never blocks on a silent client; bytes go back to their sender |
| **Tiny** (`network/tiny/*.c`, `concurrent/tinyServer1235.c`, `concurrent/tinyServer1236.c`, `server1238.c` 185-363) | the process, its children, pending SIGCHLD, open descriptors | `main`, `doit`, `read_requesthdrs`, `serve_static`, `serve_dynamic`, SIGCHLD handlers, CGI program `adder.c` | fork, wait, signals, descriptors shared by fork | no zombies; waits matched with children; connections end for their clients; what can end the server, and what can block it |
| **next-fit allocator** (`vm/9.17`, `vm/9.20_17`) | heap words, `heap_listp`, `rover` | `mm_malloc`, `mm_free`, `mm_realloc` | `mem_sbrk` of `memlib.c`; the client writes into its blocks | block list intact, coalesced, marked allocated exactly when held |
| **footerless allocator** (`vm/9.18`, `vm/9.20_18`) | the same, with a `prev_alloc` bit in each header | the same | the same | the same, although allocated blocks have no footer |
| **RIO** (`csapp.c` 749-935) | `rio_t`: descriptor, buffer, count, pointer | `rio_readn`, `rio_writen`, `rio_readnb`, `rio_readlineb` | read/write; short counts, EINTR | bytes of the stream delivered in order, once each |
| **readers-writers** (`concurrent/reader_writer12*.c`) | `readcnt` or `writecnt`, `mutex`, `w` or `r` | `reader`, `writer`; `write`, `read` | the counter, read without its lock | who is alone inside excludes everyone; nobody waits with everybody else; sharers enter when no loner competes |
| **echo client and servers** (`network/echoclient.c`, `echoserveri.c`, `echo.c`, `socket_interface.c`, `concurrent/server1222.c`) | the buffer of the client, the connection served, `ready_set`, stdin's buffer | `main`, `echo`, `command` | RIO, the connections, a terminal | a client prints its own lines; the known ways to wait for ever are the only ones |
| **`open_clientfd`, `open_listenfd`** (`csapp.c` 950-1065, `socket_interface.c` 166-246) | the socket of the address being tried | a walk over addresses | socket, connect, bind, listen, close | one socket on success, none left open |
| **timed gets** (`getsProc123*.c`, `ecf/fgets.c`) | jump buffer, alarm, `timeout` and `res` | `tfgets` | signals, threads, `select` | the answer is true of the buffer; nothing is written after; the limit binds |
| `matrixMUL.c`, `gethostBYname1226.c` | a matrix; a static buffer | | | deterministic product; the copy is deep |
| exercises in `ecf/`, `IO_Devices/`, `linking/`, other `network/*.c` | | straight-line I/O | | |

The behaviours that are hard to test: overlap of threads in sbuf; deferred
cancellation of a thread that waits for two semaphores in turn; signals that
coalesce and handlers that reap a child someone else waits for; clients that stay
silent and keep the thread that serves them; a child that
inherits descriptors of other requests; a `select` result used after the pool
has changed; a time limit that races the line it is for; two processes that wait for
each other's next byte; and, in the allocators, long sequences of legal calls that leave a
tag inconsistent for a later one. `PROJECT.json` lists them under `hazards`,
each at its line with the property that watches it.

## Modules

| module | models | proof / instance |
|---|---|---|
| `BoundedQueue` | the abstract FIFO queue sbuf promises | |
| `SBuf` | sbuf at the grain of semaphore operations and of single accesses to `rear`, `front`, `buf` | `SBufProofs`, `MCSBuf` |
| `ThreadPool` | the prethreaded server around the queue | `ThreadPoolProofs`, `MCThreadPool` |
| `EventPool` | the event-driven echo server with the reader it copies, the descriptor table and clients | `EventPoolProofs`, `MCEventPool` |
| `Tiny` | eleven Tiny servers: requests, the pool of threads, processes, SIGCHLD, wait, descriptors, failing calls | `HandlerProofs`, `MCTiny` |
| `Echo` | echo clients, iterative and selecting echo servers, the open functions and the terminal | `EchoProofs`, `MCEcho` |
| `TimedGets` | the four `tfgets`, their input and their clock | `HandlerProofs`, `MCTimedGets` |
| `ReadersWriters` | readers and writers of 1219 and 1221, one semaphore operation or access to a counter at a time | `ReadersWritersProofs`, `MCReadersWriters` |
| `ByteStream` | what a reader of a connection may rely on: each call takes the next bytes | |
| `Rio` | the RIO package at the grain of system calls and copies, with the peer that writes | `RioProofs`, `MCRio` |
| `Heap` | the abstract heap a client of `mm.h` sees | |
| `MemLib` | heap words, C's integer widths, `mem_sbrk`, tag macros | |
| `MMNextFit`, `MMNoFooter` | the two allocators, over `MemLib` | `MCMMNoFooter` |
| `Allocators` | the two of them behind one client of `mm.h` | `AllocatorsProofs`, `MCAllocators` |

**SBuf.** The variables are the fields of `sbuf_t` plus, for each thread, the
statement it is about to run (`at`). Each `P`, `V`, increment, load and store is
one action; `++sp->rear` and the store at the new index are two (`InsBump`,
`InsStore`), so an access that is not protected would be seen. `Inc` and `CMod`
are C's `int` increment (wrapping, as the builds here do) and truncating
remainder. `RemCancel` is `pthread_cancel` of a thread inside `P(&sp->items)`,
which `change_thread` may do. A sixth kind of caller is not needed: any thread
may call any operation. *Abstraction:* `queue` of `BoundedQueue` is the window
of `buf` between `front` and `rear`, discounting the thread between its bump and
its store or load; an item enters at the store and leaves at the load.

**ThreadPool.** The sbuf is now its abstract queue, but `slots` and `items`
remain semaphores, because workers are cancelled while waiting for them. A
worker is a thread identity; a slot is an index of `threads[]`; `tid[s]`,
`idx[w]` and `cancel[w]` are apart because the code keeps them apart. `Die`
is deferred cancellation: it happens at a cancellation point (`sem_wait`, I/O,
`close`), after the request, and leaves semaphores as they are. `sem_wait` is
split into its entry (which tests for cancellation) and its return, since a
thread admitted by the semaphore is not cancelled any more. `doit` is one step (`Serve`),
which need never come, or ends the process (`ServeExits`), as the Rio wrappers do on any
error and always on the descriptor −1 of a failed `accept`. `pthread_create` may fail
(`Started`): nobody looks, and the slot then names a worker that does not exist. What
`malloc` answers at line 88 is not looked at either, and taken to be memory.

**EventPool.** Bytes are positions in their client's stream, so a buffer is an
interval and copying it is arithmetic. `Select` fixes `ready_set`; `Accept`
takes the lowest free descriptor as the kernel does; `ScanReady`, `Refill`,
`CopyBytes`, `EndOfFile`, `Echo`, `Close` are `check_clients` and
`rio_readlineb`. `ScanReady` copies `clientrio[i]` into the local `rio`, as line
62 does, and nothing copies it back.

**Tiny.** The Tiny servers are one program in many copies. `variant` names the one
that runs and its record in `Servers` says where the copies differ: how `doit` is run
(after `accept` in the same process, in a process of its own, or by a pool of `pool`
threads that `Takes` a connection which is `"queued"`; how the pool changes is `ThreadPool`'s
subject, and here it has one thread or `Grown`), whether the listening socket is selected at all (not in `tinyServer1236.c`), what the SIGCHLD
handler waits for, whether `serve_dynamic` waits, which methods are known, and whether lines
are echoed instead (`tiny_echo.c`). `doit` goes through
request → headers → serve → wait → close; `request[c]` is what the server will
find: a method, the kind of file the URI names, and whether the headers end; or nothing,
from a client that closes (`"none"`) or stays connected (`"silent"`, for which `doit` has no
step but the client's reset). `doit` and its helpers are the same code in every copy; `map`
names one copy for each action.
`failed` are the connections that the client reset (`Reset`), or for which a call of
the server failed (`CallFails`): the wrappers then end the process. `holders[c]` is
the set of processes with a descriptor of connection `c` and follows `fork`, `close`
and `exit`; `pending` is a set because a pending SIGCHLD is one bit. When `accept` fails
(`AcceptFails`) the wrapper ends the server; `server1238.c` calls `accept` itself and hands
the -1 on, so that the first read of the thread that gets it ends the server instead.

**ReadersWriters.** One kind of thread, the *sharers*, enters through a counter under
`mutex` and shuts the gate when it is the first; the *loners* look at the counter
without the lock and take the gate alone. Sharers are `reader` of 1219 and `write` of
1221, loners `writer` of 1219 and `read` of 1221: `Limit` is the only difference.
(So in 1221 it is the writers that may overlap.) Each `P`, `V` and access to the
counter is a step, but the increment and the test after it are one, the counter being
written under `mutex` only. `Look` is the busy wait; as its loop has no
synchronisation, the compiler may read the counter once, and the thread may then
stay in `spin`.

**Rio.** A byte is `<<connection, place>>`, so a byte of another connection, or
one delivered twice, is told from the right one. `sent` and `taken` are how many
bytes the peer has put on the connection and how many `read()` has delivered;
`cnt`, `ptr`, `buf` are the fields of `rio_t`, which one process reuses for every
connection; `out` is what a call has put in `usrbuf`. Each `read()`, `write()` and
`memcpy` is one action with every outcome the kernel may give: any number of the
bytes on offer, EINTR (which leaves −1 in `rio_cnt`), end of file, an error. The
wrappers `Rio_*` end the process on an error (`exit`). *Abstraction:* the place
in the stream is `Pos`, the bytes delivered less those unread in `rio_buf` and
those in an unfinished call's `usrbuf`.

**Echo.** `programs` is a pair of a server and its clients. `socks` counts the sockets
an open function has made and not closed; `left` the addresses not yet tried; a failing
`close` inside the walk ends the process by way of the wrapper in `csapp.c` and is
ignored in `socket_interface.c`. A byte is `<<whose, place, newline?>>`. What a Rio call
does at the grain of system calls is `Rio`'s subject; here a call takes the next line as
a whole (`Line`, at most `MAXLINE - 1` bytes) as soon as it is there, or what is left at
the end of the file. `tty` and `stdin` are two buffers because `select` sees only the
first and `Fgets` takes from the second. A server that ends resets its connections; a
client may be interrupted at any time. Whether a user types, and when, is open. The server's
own calls may fail between two requests (`ServeFails`: `accept`, `getnameinfo`, `select`), and
so may `getaddrinfo`, which `socket_interface.c` does not check (`OpenFails`).

**TimedGets.** One call, one line: `input` is what has been typed of it (a part at the end of
the file is a line to `fgets`), `clock` the five
seconds, `pc` where the caller is. The handlers run at any moment after the time has
passed and jump (`pc = "wild"` when the frame they jump to does not exist yet or any
more). `reader` is `thread2` of `getsProc1233`, which ends with its process; it, or the thread with
the clock, may never come to be, as nobody checks `pthread_create`; the caller
may leave its loop, or stay in it for ever because `timeout` is a plain `int`
(`SpinForever`). What else a compiler might do with the two unsynchronised globals is
not considered. `tv_usec` of `getsProc1232` has one of three kinds of value. In
`ecf/fgets` the second `setjmp` of line 25 returns 0, so NULL is never answered.

**Allocators.** A heap is a function from word addresses to tags or `Junk`
(anything a client wrote). Each call is one action, the code being sequential;
inside it, every `PUT` and macro is in program order, sizes wrap at `SIZE_MOD`,
tags at `UINT_MOD`, and the `int` parameter of `mem_sbrk` truncates. The client
is any sequence of calls and fills each block it gets, so a tag inside a held
block would be overwritten. `Heap` is the refinement target of both.

## Runs

`SBuf.cfg` runs on `MCSBuf`, `ThreadPool.cfg` on `MCThreadPool` and so on. The
bounds are in the cfgs; these are the reasons for them.

| run | instance | shows |
|---|---|---|
| `SBuf` | 3 threads, 2 items, capacity 2, 3 inserts, fair | exclusion, exact semaphores, exact tests, refinement of `BoundedQueue`; no lost wake-up, the lock is always handed on, inserts and removes return once the polling stops |
| `Pool` | 3 worker identities, pool 1↔2, capacity 2, 2 connections, failing accepts, `pthread_create` and I/O, `doit` that need not return, fair | pool records, no connection lost or cut short, exact units, FIFO, every connection taken on while the pool has a worker left |
| `PoolUnaffected` | as `Pool`, capacity 1, no failures | **violated**: a cancelled worker can keep its slot's mutex |
| `EventPool` | 3 clients, 2 descriptors for clients, 2 bytes, fair | pool consistency, nobody skipped, no idle block, own bytes, release |
| `EventPoolLines` | 1 client, 4 bytes | **violated**: bytes lost with the copied reader |
| `Rio` | `RIO_BUFSIZE` 2, 2 bytes in the kernel, 2 connections of up to 4 bytes, 1 interrupted call, fair | bytes in order, `usrbuf` not overrun, whole writes, refinement of `ByteStream`, calls return |
| `Tiny` | 2 connections of any kind, silent ones too, to each of 11 servers (`server1238` with 1 and with 2 threads), resets, failing calls and failing accepts, fair | what ends a server, what blocks it, waits and children, ends of connections, no zombies |
| `ReadersWriters` | 3 sharers and 2 loners in each of 2 programs, fair | exclusion; entries go on, by sharers too when the loners keep away |
| `Echo` | 2 clients in 4 pairs of programs, 2 addresses, pieces of up to 2 bytes, 2 bytes typed, fair | one socket after any failures, own lines printed in order, the only three ways to wait for ever |
| `TimedGets` | the 4 programs, a line typed in two parts, cut or not at all, threads that cannot be created, fair | answers true of the buffer, no writes afterwards, where the limit binds |
| `Allocators` | next fit on 96 bytes, footerless on 72, chunk 24, sizes 0, 4, 20, 120 | lists intact, coalesced, held = allocated, prev bit safe, growth only when full, refinement of `Heap` |
| `MMNoFooterLeak` | footerless, 72 bytes | **violated**: allocated ⇒ held |

*Why the bounds suffice.* sbuf: with capacity 2 and 3 inserts the buffer fills,
empties and its indices go round; three threads are an inserter, a remover and
a tester in any overlap, or three of one kind. Pool: one growth, one
shrink and a reuse of a slot by a third identity are in the instance (the same
safety properties also hold with 5 identities and a pool of 1, 2 or 4, without failing
calls, where one halving cancels two workers in a row: 1.77 million states). EventPool: two descriptors for three
clients make descriptors and slots be reused and `accept` fail; two bytes give a
line, a partial line, and lines of two clients; `EventPoolLines` needs 4 bytes in
one buffer. Tiny: two children can end before one signal is delivered, two
threads can cross their waits, and one connection can be behind another that is
stuck, or beside it when there are two threads. ReadersWriters: with three sharers a first, a middle and a last one are inside
together while another leaves or comes back; two loners compete with each other.
Counts beyond 2 add nothing to tests against 0 and 1, and the proof is for all. Rio: four bytes are two buffers full, so a call
spans a refill and a buffer serves two calls; places 1 and 4 hold newlines, so a
line is the first byte of a buffer, or the last one behind a refill; sizes 0, 1, 3
and limits 1, 3, 5 are less than, equal to and more than a line and a buffer; the
second connection finds what the first left in the `rio_t`.
Echo: a client's input is two lines, or a line that `MAXLINE` cuts and a last
piece without a newline; with two clients one waits in the backlog while the other is
served, stuck or interrupted; two addresses give no, one and two failures before a
success; two typed bytes give a line, two lines in one `read`, and half a line.
TimedGets: a program makes one call and exits, so there is nothing larger to check.
Allocators: the heaps hold a prologue and up to four minimal blocks,
which covers the four cases of `coalesce`, splits with and without remainder,
extension after a free and after an allocated block, and exhaustion. `UINT_MOD` is 256
and the `int` of `mem_sbrk` holds less than 128, which a request of 120 exceeds with its
tags. Sizes near `SIZE_MOD`, which wrap in the computation of `asize` (see
[below](#what-the-models-show)), are left out.

Deadlock is checked for the allocators, where some call can always be made.
It is off where the program rightly stops: all threads blocked in
`sbuf_insert`, a reader without bytes to come, a server without clients, a client and a server that wait for each other, a process
that called `exit`.

## Fairness

* sbuf: a thread inside the package runs on (weak fairness of each of its steps that is not
  a `P`), and a semaphore that stays positive lets some waiter through: weak fairness for all
  waiters of one semaphore together, never for one of them. `sem_wait` promises no
  order, and a running thread may take the lock before one that has slept. So `Leaves` says
  that somebody gets the lock, and that a thread past its wait for a slot or an item leaves
  once the polling of `change_thread` has stopped (`MaxInsert` bounds the other calls that could
  overtake it). Calls and cancellations are not fair.
* Pool: weak fairness of `main`, of `change_thread` and of each worker's loop. `Serve` is not
  fair: `doit` waits for its client, and nothing makes a client send. `Accept` is not fair
  either. The `P`s of workers and of `change_thread` are in their loops, so a semaphore that stays
  positive admits its waiters, and one that becomes positive again and again need admit nobody
  in particular. That is the assumption made for sbuf: there are finitely many
  inserts, so `items` stays positive only while nobody takes one.
* EventPool: the server runs when it is not blocked; every client eventually
  finishes. That is an assumption on clients, and it is needed: `rio_readlineb`
  blocks the only thread for the rest of a line.
* Rio: a process inside a call goes on with it. The peer is not fair: `Answered`
  speaks of calls whose peer has closed or reset the connection. Interruptions
  are bounded by `MaxSignals`, for ever repeated ones would starve any reader.
* Tiny: processes run, signals are delivered, CGI programs end. Clients owe nothing: a silent
  one has no step, and resets are not fair.
* Echo: processes run; nobody need type, end their input, connect or be interrupted, and no call
  need succeed. `Answered` therefore says of each line sent that its client gets past the
  call, unless everything ends in one of the three situations of `Stuck`.
* TimedGets: time passes, a pending signal is delivered, threads run; the user need
  never type.
* ReadersWriters: a thread that is not in a `P` runs on, out of the critical section too, and
  each semaphore lets some waiter through, as for sbuf. No thread has a guarantee of its own: in 1219 a writer that has seen `readcnt` at 1 may
  take `w` again and again before the reader that waits for it. Hence `EntriesGoOn`.

## Proofs

`SBufProofs` proves, for every set of threads, every capacity and every width of
`int`, as long as at most `INT_MAX` inserts are made (`NoWrapAssumption`: past it
`rear` is negative and so is the index `rear % n`):

* `Invariance`: the inductive invariant
  `IInv = TypeOK ∧ LockCount ∧ SlotsCount ∧ ItemsCount ∧ RearCount` holds;
* `TypeCorrect`: `TypeOK`, including that `front` and `rear` stay ints;
* `Exclusion`: `MutualExclusion`;
* `Window`: `NoOverrun`, at most `N` items are stored and none is taken twice;
* `Exact`: `UnitsExact`, the accounting of the two semaphores.

*Argument.* Nothing in the safety properties is inductive alone. Exclusion
follows from counting: `mutex` plus the number of threads at statements of a
critical section is always 1. `NoOverrun` needs both semaphore counts: a thread
past `P(slots)` and before its store has a unit nobody else has, so the window
from `Oldest` to `Newest` never exceeds `N`; and `ItemsCount` keeps it from
being negative. `RearCount` ties `rear` to the number of calls and so bounds
it. Every step moves one thread from one statement to another; lemma `Move`
computes the change in each count from that, `Moves` applies it to the nine
counts of the invariant, and one lemma for each operation (`InsertStep`,
`RemoveStep`, `LookStep`) goes through its actions.

The second half of the module goes on from there:

* `StrongInvariance`: `JInv = IInv ∧ IndexNat ∧ Hands ∧ Looked` holds;
* `LooksExact`: `LookExact`;
* `Implements`: `Spec` implies `FIFO`, the refinement of `BoundedQueue`.

*Argument.* A thread in its critical section is alone there (`Alone`), so that the counts
in `Oldest` and `Newest` are 0 or 1 when it stores, loads or tests: the store then appends
to the queue exactly what its thread holds (`Hands`), the load takes its head, the bumps
are invisible (`StillBump`). That the store leaves the rest of the queue alone needs that
indices less than `N` apart are different cells (`ModApart`); that `Diff`, C's `int`
subtraction, is the difference of the indices needs that they have not wrapped.

`ThreadPoolProofs` proves, for every finite set of workers, any connections, every
`SBUFSIZE` and every `MAXTHREAD` that is a power of two (`PowerAssumption`: there is a set
of sizes within `1 .. MAXTHREAD` that doubling and halving do not leave. With 1000 in
place of 1024, `create_threads` would run past `threads[]`, since line 97 stops at
`MAXTHREAD` only):

* `PoolInvariance`: `PInv = PoolType ∧ ChgLoops ∧ PoolAgrees ∧ LocksExact ∧ NeverCutShort`
  holds; `NotCutShort` and `SizeExact` are its consequences `NeverCutShort` and `PoolSize`
  (the slots below `nthreads` name distinct workers, none cancelled, and every worker that goes
  on is among them; it need not exist, where `pthread_create` failed);
* `BufferInvariance`: `QInv = PInv ∧ BufType ∧ Units ∧ Hands ∧ NoConnLost ∧ ClosedOnes`
  holds; `SemaphoresExact` and `NothingLost` are `WellFormed` and `NoConnLost`;
* `QueueImplemented`: `Spec` implies `FIFO`, the refinement of `BoundedQueue`.

*Argument.* `PoolAgrees` relates `threads[]` to the workers at every statement of
`change_thread`: slots in use name distinct workers that know their index, and a worker
that goes on (alive, not cancelled) has a slot not given up in this halving.
`LocksExact` says of slots, not of workers, what a mutex at 0 means, because a cancelled worker
may take the mutex of a slot that is not its own any more: then nobody active holds it, and
the invariant still stands (the starvation of `Unaffected` is no violation of it). So while
`change_thread` holds slot `i`, that slot's worker is before its `P`; that is `NeverCutShort`.
From there on a cancelled worker has no connection and no unit of `items` or `slots`,
`Units` and `NoConnLost` are counts that each step of main and of a worker moves by one
(`CountMoves`, `AppendPositions`, `TailPositions`), and all of `change_thread`, though it
reuses the identities of dead threads, leaves every hand as it was (`Unmoved`).

`RioProofs` proves, for every `RIO_BUFSIZE`, every stream, every size asked for and
every pattern of short, interrupted and failing system calls:

* `Invariance`: the inductive invariant `IInv`, that is `TypeOK`, `InOrder`,
  `InBounds`, `Written`, `Shape` (which calls are made in which mode, and how much
  room an unfinished call has left) and `NoNewlineYet` (an unfinished line holds
  no newline);
* `TypeCorrect`, `Ordered`, `Bounded`, `AllWritten`: its parts;
* `Implements`: `Spec` implies `Promise`, the refinement of `ByteStream`.

*Argument.* A sequence of bytes is `Consecutive` when it is a run of one
connection from a given place; `RunGrows` says that bytes following a run
lengthen it and `RunIsBytes` that a run is determined by its place and length.
Every step of a call is then one of two kinds: `Progress(bytes, done)`, after
which `usrbuf` holds that longer run and the call answers if `done`, or a failure.
One lemma for each action shows which it is (`ReadnProgress`, `RefillProgress`,
`CopyProgress` and so on), and what is left is done once for all of them:
`ProgressInv` keeps the invariant, `ProgressStream` makes the step a
`Take` of `ByteStream` when the call answers and a stutter when it goes on.
`Shape` and `NoNewlineYet` are needed because `InBounds` alone does not say that a
call still running has room for the next byte, nor `InOrder` that the line it
returns ends at its first newline.

`ReadersWritersProofs` proves, for any finite set of sharers and any loners:

* `Invariance`: the inductive invariant `IInv = TypeOK ∧ Kinds ∧ MutexHeld ∧ CntExact
  ∧ GateHeld`;
* `Excludes`: `Exclusion`.

*Argument.* `MutexHeld`: at most one sharer is between its `P` and `V` of `mutex`,
and the semaphore is 1 when none is. Hence the counter is exact (`CntExact`: it is the
number of sharers between increment and decrement, and still 1 at the `P` of the gate,
still 0 at its `V`). `Shared` says when the sharers hold the gate together: from the
`P` of the first to the `V` of the last. `GateHeld` follows: the gate is free, or
`Shared`, or held by one loner, and no two of these at once. The unlocked look at the
counter plays no part in it, which is why its staleness is harmless to safety.

`EventPoolProofs` proves, for any clients, any number of bytes and descriptors and any
buffer sizes, as long as an `fd_set` holds every descriptor the process may have
(`FdAssumption`: `OpenMax <= FD_SETSIZE`):

* `EventInvariance`: `EInv = PInv ∧ Peers ∧ Counted ∧ Awake ∧ Own ∧ EchoesOwn` holds;
* `PoolStaysConsistent`, `NoneLeft`, `NoWait`, `OwnBytesOnly`: the properties
  `PoolConsistent`, `AllReadyServed`, `NoIdleBlock`, `EchoesOwn`.

*Argument.* Slots and descriptors are both taken lowest first and freed together, so slot
`s` only ever has descriptor `listenfd + 1 + s` (`SlotsFds`, `Lowest`); that is why
`add_client` never fails for want of a slot. `select` counts descriptors and the loop
counts slots: the map from one to the other is a bijection (`SelectCounted`), and from
there on `nready` is the number of ready slots from the loop's `i` on, one more while the
listening descriptor is due (`Counted`). The new client is not among them because its
descriptor was free when `select` ran (`AcceptPending`). `Awake` needs that nobody else reads
a client's bytes, which is `Peers`: a client is queued once or is the peer of one
descriptor. `Own` describes the reader and the line as adjoining intervals of one client's
bytes that come after all that was echoed to it; that bytes are lost when the copied
reader is dropped (`EchoesLines`) does not disturb it.

`HandlerProofs` is about the programs that signal handlers interrupt, `tfgets` and the Tiny
servers. For runs of any length of any version of `tfgets` it proves:

* `Invariance`: the inductive invariant `IInv = GetsTypeOK ∧ NoMoreThanTyped ∧
  ReaderAgrees ∧ SpunEnough ∧ Answers`;
* `AnswersTrue`: `Answers`; `QuietAfter`: the action property `Quiet`.

*Argument.* `Answers` alone is not inductive: `getsProc1233` answers what it finds in
`res`, so the reading thread must have put the truth there before it sets `timeout`
to 0, and nothing may be copied once it has (`ReaderAgrees`); and the caller must have
seen one of the two flags (`SpunEnough`). The second also makes `Quiet` a consequence:
a caller that is back before the time has passed is one whose reader is done.

And for each of the eleven servers, any finite set of connections (`ConnsAssumption`) and any
number of threads in the grown pool (`GrownAssumption`):

* `TinyInvariance`: the inductive invariant `TInv = TypeOK ∧ Fresh ∧ Kind ∧ OneAtATime ∧
  Held ∧ WaitsMatchChildren ∧ EndsOnlyBy`;
* `EndsNoOtherWay`, `WaitsMatched`, `EndsAreSeen`: the properties `EndsOnlyBy`,
  `WaitsMatchChildren`, `EndSeen`.

*Argument.* Threads that wait and children are counted together: a request that is not
yet served has no program (`Fresh`), so `fork` adds one to both counts, a `Wait` that reaps,
whoever's program it takes, removes one from both, and nobody else reaps where there is no
handler (`Kind`). A thread in `Wait` therefore always has a child to reap or to wait for, and
`EndsOnlyBy` follows: `Wait` fails only in `tiny118` and `tiny1113`, where the
handler or the kernel reaps. For `EndSeen`, an iterative server serves one request
at a time (`OneAtATime`), so a program can inherit only the connection it answers (`Held`);
in `tiny1235` the parent has closed it before, and a worker has its own only.

`EchoProofs` proves, for any clients, any number of addresses, inputs of any length and
every `MAXLINE`:

* `EchoInvariance`: the inductive invariant `EchoInv = Typed ∧ Walking ∧ OneSocket ∧
  ∀ c : Echoed(c)`;
* `OneSocketAlways`: `OneSocket`; `PrintsItsOwn`: `EchoesBack`.

*Argument.* `Walking` says what `socks` is at each place of the walk over the addresses:
none between two tries and one during a try, which is what the loop then starts with. It
also says that a connection stands only while the server listens, so that a client whose
connection stands has a server in its loop. `EchoesBack` is a property of the client's
side; what makes it inductive is where the bytes are meanwhile (`Echoed`). A client is
either at its terminal, with nothing under way, or waits for one line: its bytes follow
those printed (`Numbered`), they are in `buf`, and they are all in `up`, or all in `down`,
or gone with the connection. That they are a whole line as `rio_readlineb` cuts it
(`IsLine`) makes the server's call and the client's next one take exactly this line
(lemma `Cut`). What the client prints without an answer is `buf` again, hence its own next
bytes; `got` then stays behind, which is why it is only a prefix of `printed`.

`AllocatorsProofs` proves, for every `MAX_HEAP` and `CHUNKSIZE` and every width of `int` and
`size_t` (`SizesAssumption`, `HeapAssumption`: whole words, a heap whose size an `int` holds and
with room for the prologue and the epilogue) and any requests that
fit an `unsigned int` when rounded up (`RequestsAssumption`: nothing in the code
checks it, and a larger request is cut when its size is packed in a tag or handed to `mem_sbrk`,
so that a block smaller than asked for comes back):

* `AllocInvariance`: the inductive invariant `AllocInv`;
* `HeapsWellFormed`, `HeldExactly`, `PrevBitIsSafe`: `WellFormed`, `Held`, `PrevBitSafe`;
* `GrowsOnlyWhenFullAlways`: the action property `GrowsOnlyWhenFull`;
* `Refinement`: `Spec` implies `ClientView`, the refinement of `Heap`.

*Argument.* `WellFormed` speaks of a walk over the heap, about which nothing can be said
one word at a time. The invariant says instead that there is a set `B` of blocks that
*tiles* the heap: each block leads to the next one or to the end, and none is left out or
overlaps another (`Tiles`). Merging a run of blocks, cutting one in two and adding one at
the end make a tiling of a tiling (`MergeTiles`, `SplitTiles`, `ExtendTiles`); these lemmas
know no tags. Over them the two allocators say what their tags mean. Next fit (`NFList`,
`NFReady`): every footer repeats its header, no two neighbours are free, the rover is a
member of `B`, and the allocated members are those the client holds, each with room for its
size. Without footers (`NList`, `NSafe`): free blocks have footers, and a header says that
its predecessor is free only if that is nobody's and its footer stands. The other
direction does not hold in the code (`vm/9.18/mm.c:169` leaves stale bits) and is not needed.
Each helper then has a lemma: `coalesce` in its four cases, `extend_heap`, `mm_init`, `place`
with and without a split, `find_fit`, `mm_malloc`, `mm_free`; a `realloc` is a malloc and a free.
While `mm_free` or `extend_heap` has freed a block and `coalesce` has not run, the block may
have a free neighbour; the list lemmas take the set of blocks that this is forgiven for.
The recursive functions `Walk` and `WalkEnd` are shown to be well defined because links lead
upwards (the least-element principle on sets of numbers stands for induction), and their
values to be `B` and its end. Refinement needs that tiles are apart: a new block shares no byte
with what is held.

*Only model-checked* are the liveness properties (`NoLostWakeup`, `Leaves`, `Served`,
`Answered`, `Released`, `EntriesGoOn`, `InTime` and `NoZombies`): TLAPS does not treat
`ENABLED` or fairness. Every invariant, action property and refinement that a
passing run checks is also a theorem.

## What the models show

Held, on the instances above: the RIO calls return the next bytes of their
connection and a short count only at its end; sbuf is a bounded FIFO queue for any callers, and
its tests are exact; halving the pool never loses a connection or interrupts a
service; the event loop's records agree and nobody ready is skipped; `Wait` in
threads may reap someone else's child but the waits and children always match;
the stale look of a writer at the readers' counter cannot let it in beside a reader;
both allocators give disjoint blocks for ever; whatever addresses fail, a process that
gets past the open functions of `csapp.c` holds one connected or listening socket.

Some properties name exceptions, which are what the code does:

* `OneSocket` asks less of `socket_interface.c`: its client goes on with a closed
  descriptor when every address failed (line 197 tests `listp`, not the place in the list),
  and its server closes the socket that is bound and listens with one that is not (228);
* `Answered` excepts `Stuck`: an echo server waits for the newline of a last line while
  the client waits for the echo, for ever; it waits for a connected client whose user types
  nothing while all others wait for it (`echo.c:13`); and `server1222.c` waits for the rest of a
  half-typed command while its clients wait;
* `Served` of `Tiny` excepts `Stuck`: a client that sends no request, or no end of its headers,
  keeps an iterative server (`tiny.c:62`, `116`) or one thread of `server1238.c` (195, 244) for
  ever. `Served` of `ThreadPool` says what this costs the pool: one worker that goes on is
  enough for every connection, but when all are lost (`AllLost`: not returning from `doit`,
  never created, or behind a mutex a cancelled worker took with it) what is in the buffer stays
  there, because the pool grows only when the buffer is full, and not at all once it has
  `MAXTHREAD` workers;
* `EntriesGoOn` promises a sharer an entry only when the loners keep away from the gate;
* `Answers`, `Quiet` and `InTime` except what a limit does not bind: `ecf/fgets`
  returns its argument when the time is up, `thread2` of `getsProc1233.c` writes the buffer
  after a NULL, `getsProc1232.c` waits without a limit once a first byte is there and uses
  a `tv_usec` nobody set, and a loop on a plain `int` may never end. `InTime` starts where
  a call waits, because a signal that comes before `sigsetjmp`, or after the return,
  jumps into no frame.

Disagreements between the code and what is written beside it, each with a run:

1. `server1238.c:120` "ensure the thread would not be affected": cancellation is
   deferred, so a cancelled worker waiting for `threads[i].mutex` can take it
   after `change_thread` releases it and die with it; the next worker of that
   slot and `change_thread` then wait for ever (`PoolUnaffected`).
2. `server1223.c:62` copies the `rio_t` of a client and drops the copy with what
   it has buffered: the rest of a chunk is lost, and what is echoed next does
   not start a line (`EventPoolLines`).
3. `vm/9.18/mm.c:300` marks the next block allocated although it can be free:
   memory is lost (`MMNoFooterLeak`).

Seen while modelling, without a run:

* nothing looks at the result of `pthread_create` (`server1238.c:90`): `nthreads`, "current
  number of threads" (46), then counts a worker that does not exist, at the start perhaps the
  only one (`PoolSize` and `Served` allow for it), and a later halving cancels a thread by an
  identifier that was never set;
* the index expressions of `server1238.c:168` and `179` leave the buffer once `rear` or
  `front` passes `INT_MAX`;
* `tiny118.c:245` waits for a child that its own handler may have reaped, and then
  exits, and `tiny1113.c:62` makes the kernel reap it (`EndsOnlyBy` allows it in these two
  variants only);
* an echo client prints the line it has just sent as if it were the echo, when the server
  has closed meanwhile (`echoclient.c:25` ignores the result; `EchoesBack` allows it);
* the allocators' `asize` wraps for sizes near 2^64: the block is then smaller than asked;
* `tinyServer1236.c:43` registers the listening socket in the wrong set, so that no
  client is ever accepted (`Tiny1236`);
* in `vm/9.18/mm.c` the epilogue keeps a prev bit of 1 after the last block is freed,
  so an extension is not merged with it, and `checkheap` (369) compares footers that
  allocated blocks do not have;
* `reader_writer1220.c:40` (`i&1==0`) never creates a reader, and 1221 lets writers
  overlap while readers exclude each other.

## What is not modelled

The text of HTTP requests and replies, file contents, names and addresses:
the properties do not depend on them. `csapp.c`'s one-call wrappers are
represented by what they do to their caller (exit on error). The programs
without a second actor and without persistent state (`IO_Devices`, `linking`, most of
`ecf`, the address conversions of `network`) have nothing beyond one path to check, and
in `matrixMUL.c` no order of steps shows. `gethostBYname1226.c` is a lock around one call;
its mistakes are of memory. `reader_writer1220.c` creates writers only.
`main` of `tinyServer1236.c` never accepts, so its pool is not modelled.

## Plan

Done, in this order: `SBuf` with `BoundedQueue` and proofs; `ThreadPool` with proofs; allocators with
`Heap`; `EventPool` with proofs; `Tiny` with proofs; `Rio` with `ByteStream` and proofs of its invariants and
refinement; `ReadersWriters` and the proof of its exclusion; `TimedGets` with proofs;
`Echo` with the open functions and proofs; `Allocators` with proofs.

What would add most next:

1. An abstract lock with a shared and an exclusive mode, as what `ReadersWriters` promises, and
   the proof that it implements it.
2. An abstract echo service (a connection returns what was sent on it, in order), implemented by
   `Echo` and, up to the bytes it loses, by `EventPool`.
3. `tiny118.c` against its comment "Parent waits for and reaps child".
4. In `Tiny`, the pool of `server1238.c` as `ThreadPool` has it, growing and shrinking beside the children.
