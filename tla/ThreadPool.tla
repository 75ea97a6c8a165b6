----------------------------- MODULE ThreadPool -----------------------------
(***************************************************************************)
(* The server of src/concurrent/server1238.c: main accepts connections and *)
(* inserts them into the sbuf, a pool of workers serves them, and          *)
(* change_thread doubles the pool when the buffer is full and halves it    *)
(* when it is empty, cancelling the upper half.                            *)
(*                                                                         *)
(* The sbuf is taken at the grain SBuf justifies: its semaphores slots and *)
(* items are kept, the section under its mutex is one step.  Cancellation  *)
(* is deferred (pthreads' default): a cancelled thread dies on entering a  *)
(* cancellation point (sem_wait, and the I/O of doit and close) or while   *)
(* it is blocked in sem_wait; one that has passed the test of sem_wait may *)
(* still take the semaphore, as glibc's does.                              *)
(***************************************************************************)
EXTENDS Integers, FiniteSets, Sequences

CONSTANTS Workers,      \* thread identities; those of dead threads are reused
          Conns,        \* the connections clients make
          N,            \* SBUFSIZE
          MaxThreads,   \* MAXTHREAD
          First,        \* the worker created by init
          MayFail,      \* accept, pthread_create and I/O may fail
          NoFd, Main    \* the descriptor -1; the main thread

ASSUME ConstantsAssumption ==
    /\ N \in Nat \ {0} /\ MaxThreads \in Nat \ {0}
    /\ First \in Workers /\ Main \notin Workers /\ NoFd \notin Conns
    /\ MayFail \in BOOLEAN /\ IsFiniteSet(Workers)
(* Doubled and halved from 1, the pool's size stays between 1 and MAXTHREAD:  *)
(* MAXTHREAD is a power of two, as 1024 is.                                   *)
IsSizes(S) == 1 \in S /\ \A m \in S : /\ m # MaxThreads => 2 * m \in S
                                      /\ m # 1 => m \div 2 \in S
ASSUME PowerAssumption == \E S \in SUBSET (1 .. MaxThreads) : IsSizes(S)

Slots == 0 .. MaxThreads - 1      \* the indices of threads[]

VARIABLES
    queue, slots, items,   \* the sbuf
    accepted, closed,      \* connections accepted and closed so far
    mainAt, mainFd,        \* main: its statement and connfd
    nthreads, lock, tid,   \* nthreads, threads[i].mutex, threads[i].tid
    at, idx, cancel, fd,   \* each worker: statement, i, pending cancel, connfd
    chgAt, i,              \* change_thread: its statement and i
    exited                 \* exit() was called

sbufVars   == <<queue, slots, items>>
mainVars   == <<accepted, mainAt, mainFd>>
poolVars   == <<nthreads, lock, tid>>
workerVars == <<at, idx, cancel, fd>>
chgVars    == <<chgAt, i>>
vars == <<sbufVars, mainVars, closed, poolVars, workerVars, chgVars, exited>>

Labels == {"dead", "lock_enter", "lock_wait", "items_enter", "items_wait",
           "take", "post", "serve", "close", "unlock"}

(* Where pthread_create leaves a worker: nobody looks at its result, so one   *)
(* that could not be created is counted like the others ("dead", and not      *)
(* cancelled).  The identifier then left in threads[i] is taken to denote no  *)
(* other thread.                                                             *)
Started == {"lock_enter"} \cup {l \in {"dead"} : MayFail}

(* main may fail to create change_thread too. *)
Init == /\ queue = <<>> /\ slots = N /\ items = 0
        /\ accepted = {} /\ closed = {}
        /\ mainAt = "accept" /\ mainFd = {}
        /\ nthreads = 1
        /\ lock = [s \in Slots |-> IF s = 0 THEN 1 ELSE 0]
        /\ tid = [s \in Slots |-> First]
        /\ \E l \in Started :
             at = [w \in Workers |-> IF w = First THEN l ELSE "dead"]
        /\ idx = [w \in Workers |-> 0]
        /\ cancel = [w \in Workers |-> FALSE]
        /\ fd = [w \in Workers |-> {}]
        /\ chgAt \in {"full"} \cup {l \in {"absent"} : MayFail} /\ i = 0
        /\ exited = FALSE

-----------------------------------------------------------------------------
(* main: accept, then sbuf_insert *)
Accept ==
    /\ mainAt = "accept" /\ mainAt' = "slots"
    /\ \/ \E c \in Conns \ accepted : /\ mainFd' = {c}
                                      /\ accepted' = accepted \cup {c}
       \/ /\ MayFail /\ mainFd' = {NoFd}
          /\ UNCHANGED accepted
    /\ UNCHANGED <<sbufVars, closed, poolVars, workerVars, chgVars, exited>>
MainSlots ==
    /\ mainAt = "slots" /\ mainAt' = "put"
    /\ slots > 0 /\ slots' = slots - 1
    /\ UNCHANGED <<queue, items, accepted, mainFd, closed, poolVars, workerVars,
                   chgVars, exited>>
MainPut ==
    /\ mainAt = "put" /\ mainAt' = "items"
    /\ \E x \in mainFd : queue' = Append(queue, x)
    /\ mainFd' = {}
    /\ UNCHANGED <<slots, items, accepted, closed, poolVars, workerVars, chgVars,
                   exited>>
MainItems ==
    /\ mainAt = "items" /\ mainAt' = "accept"
    /\ items' = items + 1
    /\ UNCHANGED <<queue, slots, accepted, mainFd, closed, poolVars, workerVars,
                   chgVars, exited>>

-----------------------------------------------------------------------------
(* server_thread *)
Move(w, from, to) == at[w] = from /\ at' = [at EXCEPT ![w] = to]

(* The entry of a sem_wait passes its test for a pending cancellation. *)
LockEnter(w) ==
    /\ ~cancel[w] /\ Move(w, "lock_enter", "lock_wait")
    /\ UNCHANGED <<sbufVars, mainVars, closed, poolVars, idx, cancel, fd, chgVars,
                   exited>>
(* MUTANT: no P(&threads[i].mutex) around the service. *)
LockTakeSkipped(w) ==
    /\ Move(w, "lock_wait", "items_enter")
    /\ UNCHANGED <<sbufVars, mainVars, closed, poolVars, idx, cancel, fd, chgVars,
                   exited>>
LockTake(w) ==
    /\ Move(w, "lock_wait", "items_enter")
    /\ lock[idx[w]] > 0 /\ lock' = [lock EXCEPT ![idx[w]] = @ - 1]
    /\ UNCHANGED <<sbufVars, mainVars, closed, nthreads, tid, idx, cancel, fd,
                   chgVars, exited>>
ItemsEnter(w) ==
    /\ ~cancel[w] /\ Move(w, "items_enter", "items_wait")
    /\ UNCHANGED <<sbufVars, mainVars, closed, poolVars, idx, cancel, fd, chgVars,
                   exited>>
ItemsTake(w) ==
    /\ Move(w, "items_wait", "take")
    /\ items > 0 /\ items' = items - 1
    /\ UNCHANGED <<queue, slots, mainVars, closed, poolVars, idx, cancel, fd,
                   chgVars, exited>>
(* MUTANT: the newest connection is removed. *)
TakeNewest(w) ==
    /\ ~cancel[w] /\ Move(w, "take", "post")
    /\ fd' = [fd EXCEPT ![w] = {queue[Len(queue)]}]
    /\ queue' = SubSeq(queue, 1, Len(queue) - 1)
    /\ UNCHANGED <<slots, items, mainVars, closed, poolVars, idx, cancel, chgVars,
                   exited>>
(* P(&sp->mutex) is a cancellation point too. *)
Take(w) ==
    /\ ~cancel[w] /\ Move(w, "take", "post")
    /\ fd' = [fd EXCEPT ![w] = {queue[1]}]
    /\ queue' = Tail(queue)
    /\ UNCHANGED <<slots, items, mainVars, closed, poolVars, idx, cancel, chgVars,
                   exited>>
(* MUTANT: no V(&sp->slots). *)
SlotsPostForgotten(w) ==
    /\ Move(w, "post", "serve")
    /\ UNCHANGED <<sbufVars, mainVars, closed, poolVars, idx, cancel, fd, chgVars,
                   exited>>
SlotsPost(w) ==
    /\ Move(w, "post", "serve")
    /\ slots' = slots + 1
    /\ UNCHANGED <<queue, items, mainVars, closed, poolVars, idx, cancel, fd,
                   chgVars, exited>>
(* doit returns, or one of its Rio wrappers ends the process: always on -1. *)
Serve(w) ==
    /\ ~cancel[w] /\ fd[w] # {NoFd} /\ Move(w, "serve", "close")
    /\ UNCHANGED <<sbufVars, mainVars, closed, poolVars, idx, cancel, fd, chgVars,
                   exited>>
ServeExits(w) ==
    /\ at[w] = "serve" /\ ~cancel[w]
    /\ MayFail
    /\ exited' = TRUE
    /\ UNCHANGED <<sbufVars, mainVars, closed, poolVars, workerVars, chgVars>>
Close(w) ==
    /\ ~cancel[w] /\ Move(w, "close", "unlock")
    /\ closed' = closed \cup fd[w]
    /\ fd' = [fd EXCEPT ![w] = {}]
    /\ UNCHANGED <<sbufVars, mainVars, poolVars, idx, cancel, chgVars, exited>>
LockPost(w) ==
    /\ Move(w, "unlock", "lock_enter")
    /\ lock' = [lock EXCEPT ![idx[w]] = @ + 1]
    /\ UNCHANGED <<sbufVars, mainVars, closed, nthreads, tid, idx, cancel, fd,
                   chgVars, exited>>

(* A pending cancellation is acted upon; semaphores the thread holds stay    *)
(* down, its descriptor stays open.                                          *)
Die(w) ==
    /\ cancel[w]
    /\ at[w] \in {"lock_enter", "lock_wait", "items_enter", "items_wait", "take",
                  "serve", "close"}
    /\ at' = [at EXCEPT ![w] = "dead"]
    /\ UNCHANGED <<sbufVars, mainVars, closed, poolVars, idx, cancel, fd, chgVars,
                   exited>>

-----------------------------------------------------------------------------
(* change_thread *)
(* The indices of threads[] that are filled, and the identities not in them.  *)
Used   == 0 .. (IF chgAt = "create" THEN i ELSE nthreads) - 1
Unused == {w \in Workers : at[w] = "dead" /\ \A s \in Used : tid[s] # w}

(* BOUND: while all identities of Workers are in use (a cancelled thread has *)
(* not died yet) the pool is not grown.                                      *)
ChgFull ==
    /\ chgAt = "full"
    /\ \/ /\ Len(queue) = N /\ nthreads # MaxThreads
          /\ Cardinality(Unused) >= nthreads
          /\ chgAt' = "create" /\ i' = nthreads
       \/ /\ Len(queue) # N
          /\ chgAt' = "empty" /\ UNCHANGED i
    /\ UNCHANGED <<sbufVars, mainVars, closed, poolVars, workerVars, exited>>
(* create_threads(nthreads, nthreads), one index at a time *)
ChgCreate ==
    /\ chgAt = "create" /\ i < 2 * nthreads
    /\ \E w \in Unused, l \in Started :
         /\ tid' = [tid EXCEPT ![i] = w]
         /\ at' = [at EXCEPT ![w] = l]
         /\ idx' = [idx EXCEPT ![w] = i]
         /\ cancel' = [cancel EXCEPT ![w] = FALSE]
         /\ fd' = [fd EXCEPT ![w] = {}]
    /\ lock' = [lock EXCEPT ![i] = 1]
    /\ i' = i + 1
    /\ UNCHANGED <<sbufVars, mainVars, closed, nthreads, chgAt, exited>>
ChgDouble ==
    /\ chgAt = "create" /\ i = 2 * nthreads
    /\ nthreads' = 2 * nthreads
    /\ chgAt' = "full"
    /\ UNCHANGED <<sbufVars, mainVars, closed, lock, tid, workerVars, i, exited>>
(* MUTANTS: the last thread is cancelled too; the loop starts one too high. *)
ChgEmptyToNone ==
    /\ chgAt = "empty"
    /\ IF queue = <<>>
       THEN chgAt' = "lock" /\ i' = nthreads \div 2
       ELSE chgAt' = "full" /\ UNCHANGED i
    /\ UNCHANGED <<sbufVars, mainVars, closed, poolVars, workerVars, exited>>
ChgEmptyOffByOne ==
    /\ chgAt = "empty"
    /\ IF queue = <<>> /\ nthreads # 1
       THEN chgAt' = "lock" /\ i' = nthreads \div 2 + 1
       ELSE chgAt' = "full" /\ UNCHANGED i
    /\ UNCHANGED <<sbufVars, mainVars, closed, poolVars, workerVars, exited>>
ChgEmpty ==
    /\ chgAt = "empty"
    /\ IF queue = <<>> /\ nthreads # 1
       THEN chgAt' = "lock" /\ i' = nthreads \div 2
       ELSE chgAt' = "full" /\ UNCHANGED i
    /\ UNCHANGED <<sbufVars, mainVars, closed, poolVars, workerVars, exited>>
(* MUTANT: a worker is cancelled without waiting for its mutex. *)
ChgLockSkipped ==
    /\ chgAt = "lock" /\ i < nthreads
    /\ chgAt' = "cancel"
    /\ UNCHANGED <<sbufVars, mainVars, closed, poolVars, workerVars, i, exited>>
ChgLock ==
    /\ chgAt = "lock" /\ i < nthreads
    /\ lock[i] > 0 /\ lock' = [lock EXCEPT ![i] = @ - 1]
    /\ chgAt' = "cancel"
    /\ UNCHANGED <<sbufVars, mainVars, closed, nthreads, tid, workerVars, i, exited>>
ChgCancel ==
    /\ chgAt = "cancel"
    /\ cancel' = [cancel EXCEPT ![tid[i]] = TRUE]
    /\ chgAt' = "unlock"
    /\ UNCHANGED <<sbufVars, mainVars, closed, poolVars, at, idx, fd, i, exited>>
ChgUnlock ==
    /\ chgAt = "unlock"
    /\ lock' = [lock EXCEPT ![i] = @ + 1]
    /\ chgAt' = "lock" /\ i' = i + 1
    /\ UNCHANGED <<sbufVars, mainVars, closed, nthreads, tid, workerVars, exited>>
ChgHalve ==
    /\ chgAt = "lock" /\ i = nthreads
    /\ nthreads' = nthreads \div 2
    /\ chgAt' = "full"
    /\ UNCHANGED <<sbufVars, mainVars, closed, lock, tid, workerVars, i, exited>>

-----------------------------------------------------------------------------
Insert   == MainSlots \/ MainPut \/ MainItems
Loop(w)  == \/ LockEnter(w) \/ LockTake(w) \/ ItemsEnter(w) \/ ItemsTake(w)
            \/ Take(w) \/ SlotsPost(w) \/ Close(w) \/ LockPost(w) \/ Die(w)
Run(w)   == Loop(w) \/ Serve(w)
Change   == \/ ChgFull \/ ChgCreate \/ ChgDouble \/ ChgEmpty
            \/ ChgLock \/ ChgCancel \/ ChgUnlock \/ ChgHalve

Next == /\ ~exited
        /\ \/ Accept \/ Insert \/ Change
           \/ \E w \in Workers : Run(w) \/ ServeExits(w)

Spec == Init /\ [][Next]_vars

(* Every thread keeps running; a semaphore that stays positive admits one     *)
(* waiter.  Clients owe nothing: Accept is not fair, nor is Serve, for a      *)
(* client that stays silent keeps doit in its first Rio_readlineb, and one    *)
(* that ends in mid-request keeps read_requesthdrs in its loop, for ever.     *)
Fairness == /\ WF_vars(~exited /\ Insert)
            /\ WF_vars(~exited /\ Change)
            /\ \A w \in Workers :
                 /\ WF_vars(~exited /\ Loop(w))
                 /\ WF_vars(~exited /\ fd[w] = {NoFd} /\ ServeExits(w))
FairSpec == Spec /\ Fairness

-----------------------------------------------------------------------------
(* PROPERTIES *)

TypeOK == /\ queue \in Seq(Conns \cup {NoFd}) /\ slots \in Nat /\ items \in Nat
          /\ accepted \subseteq Conns /\ closed \subseteq Conns \cup {NoFd}
          /\ mainAt \in {"accept", "slots", "put", "items"}
          /\ mainFd \subseteq Conns \cup {NoFd}
          /\ nthreads \in 1 .. MaxThreads
          /\ lock \in [Slots -> Nat] /\ tid \in [Slots -> Workers]
          /\ at \in [Workers -> Labels] /\ idx \in [Workers -> Slots]
          /\ cancel \in [Workers -> BOOLEAN]
          /\ fd \in [Workers -> SUBSET (Conns \cup {NoFd})]
          /\ chgAt \in {"full", "empty", "create", "lock", "cancel", "unlock",
                        "absent"}
          /\ i \in 0 .. MaxThreads /\ exited \in BOOLEAN

In(L) == {w \in Workers : at[w] \in L}

(* The positions of the buffer that hold connection c, and the living workers *)
(* that have it.                                                             *)
InBuffer(c)   == {p \in DOMAIN queue : queue[p] = c}
WithWorker(c) == {w \in Workers : at[w] # "dead" /\ c \in fd[w]}

(* An accepted connection is in the keeping of exactly one of main, a cell   *)
(* of the buffer and a living worker until it is closed, and in nobody's     *)
(* before and after: cancelling workers neither drops a connection nor has   *)
(* one served twice.                                                         *)
NoConnLost == \A c \in Conns :
    Cardinality(InBuffer(c)) + Cardinality(WithWorker(c)) + (IF c \in mainFd THEN 1 ELSE 0)
        = IF c \in accepted \ closed THEN 1 ELSE 0

(* "ensure the thread would not be affected" (line 120): a cancelled worker  *)
(* never is between its sbuf_remove and the V of its mutex, so no doit is    *)
(* cut short and no unit of items or slots dies with it.                     *)
NeverCutShort == \A w \in Workers :
    cancel[w] => at[w] \in {"dead", "lock_enter", "lock_wait", "items_enter"}

(* Whenever change_thread decides, threads[0 .. nthreads-1] are distinct      *)
(* workers, each told its own index, and none of them cancelled; a living     *)
(* worker that is not among them has been cancelled.                         *)
Working(w) == at[w] # "dead" /\ ~cancel[w]
Pool       == {tid[s] : s \in 0 .. nthreads - 1}
PoolSize == chgAt \in {"full", "empty"} =>
    /\ \A s, u \in 0 .. nthreads - 1 : tid[s] = tid[u] => s = u
    /\ \A s \in 0 .. nthreads - 1 : idx[tid[s]] = s /\ ~cancel[tid[s]]
    /\ {w \in Workers : Working(w)} \subseteq Pool

(* The state is well typed, and the buffer's semaphores stay exact although  *)
(* workers are cancelled while they wait for them.                           *)
Units == /\ slots + Len(queue) + Cardinality(In({"post"}))
                 + (IF mainAt = "put" THEN 1 ELSE 0) = N
         /\ items + Cardinality(In({"take"}))
                 + (IF mainAt = "items" THEN 1 ELSE 0) = Len(queue)
WellFormed == TypeOK /\ Units

(* Connections pass from main to the workers as through a FIFO queue of N    *)
(* cells.                                                                    *)
Buffer == INSTANCE BoundedQueue
             WITH Threads <- Workers \cup {Main}, Items <- Conns \cup {NoFd},
                  hand <- [t \in Workers \cup {Main} |->
                              IF t = Main THEN mainFd ELSE fd[t]]
FIFO == Buffer!Spec

(* Every accepted connection is eventually closed or in the hands of a doit   *)
(* (or a failing one ends the process), unless in the end no worker that      *)
(* nthreads counts is left to take it: each does not exist, is in a doit that *)
(* does not return, or waits for the mutex a cancelled worker took with it.   *)
(* Shrinking the pool strands no connection, and one worker that goes on is   *)
(* enough.                                                                    *)
InService(c) == \E w \in Workers : at[w] = "serve" /\ c \in fd[w]
Lost(w)      == \/ at[w] \in {"dead", "serve"}
                \/ at[w] = "lock_wait" /\ lock[idx[w]] = 0
AllLost      == nthreads > 0 /\ \A w \in Pool : Lost(w)
Served == \A c \in Conns :
    \/ c \in accepted ~> (c \in closed \/ InService(c) \/ exited)
    \/ <>[]AllLost

(* "ensure the thread would not be affected" (line 120), of the mutex        *)
(* itself: a worker that is not cancelled gets the mutex it waits for,       *)
(* whatever happens to other workers.                                        *)
Unaffected == \A w \in Workers :
    at[w] = "lock_wait" ~> (at[w] # "lock_wait" \/ exited)
=============================================================================
