-------------------------------- MODULE SBuf --------------------------------
(***************************************************************************)
(* The bounded buffer of src/concurrent/server1238.c at the grain of its   *)
(* semaphore operations and of its accesses to rear, front and buf.  Any   *)
(* thread may call sbuf_insert, sbuf_remove, isFULL and isEMPTY; a thread  *)
(* waiting in P(&sp->items) may be cancelled there (pthread_cancel).       *)
(***************************************************************************)
EXTENDS Integers, FiniteSets, Sequences

CONSTANTS Threads,    \* the calling threads
          Items,      \* the descriptors queued
          N,          \* sp->n
          IntMax,     \* INT_MAX: width of rear and front
          MaxInsert   \* bound on the number of calls of sbuf_insert

ASSUME NAssumption      == N \in Nat \ {0}
ASSUME BoundsAssumption == IntMax \in Nat \ {0} /\ MaxInsert \in Nat
ASSUME ThreadAssumption == IsFiniteSet(Threads)

Zero == "zero"        \* what Calloc leaves in buf: the descriptor 0

VARIABLES buf, front, rear,        \* sp->buf, sp->front, sp->rear
          mutex, slots, items,     \* the values of the three semaphores
          at,                      \* at[t]: the statement thread t is to run
          item,                    \* item[t]: the items t owns
          res,                     \* res[t]: what isFULL or isEMPTY is about to return
          calls                    \* calls of sbuf_insert so far

vars == <<buf, front, rear, mutex, slots, items, at, item, res, calls>>

(* The statements, in program order; "out": the thread is not in the package. *)
InsertCS == {"ins_bump", "ins_store", "ins_unlock"}
RemoveCS == {"rem_bump", "rem_load", "rem_unlock"}
LookCS   == {"full_test", "full_unlock", "empty_test", "empty_unlock"}
CS       == InsertCS \cup RemoveCS \cup LookCS
Waiting  == {"ins_slots", "ins_mutex", "rem_items", "rem_mutex",
             "full_mutex", "empty_mutex"}
Labels   == CS \cup Waiting \cup {"out", "ins_items", "rem_slots"}

At(L)    == {t \in Threads : at[t] \in L}
Count(L) == Cardinality(At(L))

(* C's int increment and remainder: ++ wraps, % truncates towards zero. *)
Inc(x)  == IF x = IntMax THEN -IntMax - 1 ELSE x + 1
Diff(x, y) == LET w == 2 * IntMax + 2
              IN  ((x - y + IntMax + 1) % w) - IntMax - 1
CMod(x) == IF x >= 0 THEN x % N ELSE -((-x) % N)

Init == /\ buf = [i \in 0 .. N - 1 |-> Zero]
        /\ front = 0 /\ rear = 0
        /\ mutex = 1 /\ slots = N /\ items = 0
        /\ at = [t \in Threads |-> "out"]
        /\ item = [t \in Threads |-> {}]
        /\ res = [t \in Threads |-> FALSE]
        /\ calls = 0

Goto(t, from, to) == at[t] = from /\ at' = [at EXCEPT ![t] = to]

-----------------------------------------------------------------------------
(* The three semaphores. *)
LockMutex(t, from, to) ==
    /\ Goto(t, from, to)
    /\ mutex > 0 /\ mutex' = mutex - 1
    /\ UNCHANGED <<buf, front, rear, slots, items, item, res, calls>>
(* Each V(&sp->mutex) comes before a return; an answer is given with it. *)
UnlockMutex(t, from, to) ==
    /\ Goto(t, from, to)
    /\ mutex' = mutex + 1
    /\ res' = [res EXCEPT ![t] = FALSE]
    /\ UNCHANGED <<buf, front, rear, slots, items, item, calls>>

(* sbuf_insert *)
InsCall(t, x) ==
    /\ item[t] = {} /\ calls < MaxInsert
    /\ Goto(t, "out", "ins_slots")
    /\ item' = [item EXCEPT ![t] = {x}]
    /\ calls' = calls + 1
    /\ UNCHANGED <<buf, front, rear, mutex, slots, items, res>>
InsSlots(t) ==
    /\ Goto(t, "ins_slots", "ins_mutex")
    /\ slots > 0 /\ slots' = slots - 1
    /\ UNCHANGED <<buf, front, rear, mutex, items, item, res, calls>>
InsLock(t) == LockMutex(t, "ins_mutex", "ins_bump")
InsBump(t) ==
    /\ Goto(t, "ins_bump", "ins_store")
    /\ rear' = Inc(rear)
    /\ UNCHANGED <<buf, front, mutex, slots, items, item, res, calls>>
(* A store at a negative index misses the array. *)
InsStore(t) ==
    /\ Goto(t, "ins_store", "ins_unlock")
    /\ \E x \in item[t] :
         buf' = [i \in 0 .. N - 1 |-> IF i = CMod(rear) THEN x ELSE buf[i]]
    /\ item' = [item EXCEPT ![t] = {}]
    /\ UNCHANGED <<front, rear, mutex, slots, items, res, calls>>
InsUnlock(t) == UnlockMutex(t, "ins_unlock", "ins_items")
(* MUTANT: no V(&sp->items). *)
InsItemsForgotten(t) ==
    /\ Goto(t, "ins_items", "out")
    /\ UNCHANGED <<buf, front, rear, mutex, slots, items, item, res, calls>>
InsItems(t) ==
    /\ Goto(t, "ins_items", "out")
    /\ items' = items + 1
    /\ UNCHANGED <<buf, front, rear, mutex, slots, item, res, calls>>

(* sbuf_remove *)
RemCall(t) ==
    /\ item[t] = {}
    /\ Goto(t, "out", "rem_items")
    /\ UNCHANGED <<buf, front, rear, mutex, slots, items, item, res, calls>>
RemItems(t) ==
    /\ Goto(t, "rem_items", "rem_mutex")
    /\ items > 0 /\ items' = items - 1
    /\ UNCHANGED <<buf, front, rear, mutex, slots, item, res, calls>>
(* MUTANT: no P(&sp->mutex). *)
RemLockSkipped(t) ==
    /\ Goto(t, "rem_mutex", "rem_bump")
    /\ UNCHANGED <<buf, front, rear, mutex, slots, items, item, res, calls>>
RemLock(t) == LockMutex(t, "rem_mutex", "rem_bump")
RemBump(t) ==
    /\ Goto(t, "rem_bump", "rem_load")
    /\ front' = Inc(front)
    /\ UNCHANGED <<buf, rear, mutex, slots, items, item, res, calls>>
(* MUTANT: the newest item is returned. *)
RemLoadNewest(t) ==
    /\ Goto(t, "rem_load", "rem_unlock")
    /\ item' = [item EXCEPT ![t] = {buf[CMod(rear)]}]
    /\ UNCHANGED <<buf, front, rear, mutex, slots, items, res, calls>>
(* A load at a negative index reads whatever precedes the array. *)
RemLoad(t) ==
    /\ Goto(t, "rem_load", "rem_unlock")
    /\ \E x \in IF CMod(front) >= 0 THEN {buf[CMod(front)]} ELSE Items \cup {Zero} :
         item' = [item EXCEPT ![t] = {x}]
    /\ UNCHANGED <<buf, front, rear, mutex, slots, items, res, calls>>
RemUnlock(t) == UnlockMutex(t, "rem_unlock", "rem_slots")
(* MUTANT: no V(&sp->slots). *)
RemSlotsForgotten(t) ==
    /\ Goto(t, "rem_slots", "out")
    /\ UNCHANGED <<buf, front, rear, mutex, slots, items, item, res, calls>>
RemSlots(t) ==
    /\ Goto(t, "rem_slots", "out")
    /\ slots' = slots + 1
    /\ UNCHANGED <<buf, front, rear, mutex, items, item, res, calls>>

(* The caller of sbuf_remove has closed the descriptor it was given. *)
Release(t) ==
    /\ at[t] = "out" /\ item[t] # {}
    /\ item' = [item EXCEPT ![t] = {}]
    /\ UNCHANGED <<buf, front, rear, mutex, slots, items, at, res, calls>>

(* A thread cancelled while it waits in P(&sp->items). *)
RemCancel(t) ==
    /\ Goto(t, "rem_items", "out")
    /\ UNCHANGED <<buf, front, rear, mutex, slots, items, item, res, calls>>

(* isFULL and isEMPTY *)
LookCall(t) ==
    /\ item[t] = {}
    /\ \E l \in {"full_mutex", "empty_mutex"} : Goto(t, "out", l)
    /\ UNCHANGED <<buf, front, rear, mutex, slots, items, item, res, calls>>
(* MUTANT: isFULL compares without P(&sbuf->mutex). *)
FullLockSkipped(t) ==
    /\ Goto(t, "full_mutex", "full_test")
    /\ UNCHANGED <<buf, front, rear, mutex, slots, items, item, res, calls>>
FullLock(t)  == LockMutex(t, "full_mutex", "full_test")
EmptyLock(t) == LockMutex(t, "empty_mutex", "empty_test")
FullTest(t) ==
    /\ Goto(t, "full_test", "full_unlock")
    /\ res' = [res EXCEPT ![t] = (Diff(rear, front) = N)]
    /\ UNCHANGED <<buf, front, rear, mutex, slots, items, item, calls>>
EmptyTest(t) ==
    /\ Goto(t, "empty_test", "empty_unlock")
    /\ res' = [res EXCEPT ![t] = (front = rear)]
    /\ UNCHANGED <<buf, front, rear, mutex, slots, items, item, calls>>
(* MUTANT: isFULL returns the comparison at once, before its V. *)
FullUnlockForgotten(t) ==
    /\ Goto(t, "full_unlock", "out")
    /\ UNCHANGED <<buf, front, rear, mutex, slots, items, item, res, calls>>
FullUnlock(t)  == UnlockMutex(t, "full_unlock", "out")
EmptyUnlock(t) == UnlockMutex(t, "empty_unlock", "out")

-----------------------------------------------------------------------------
Insert(t) == \/ \E x \in Items : InsCall(t, x)
             \/ InsSlots(t) \/ InsLock(t) \/ InsBump(t) \/ InsStore(t)
             \/ InsUnlock(t) \/ InsItems(t)
Remove(t) == \/ RemCall(t) \/ RemItems(t) \/ RemLock(t) \/ RemBump(t)
             \/ RemLoad(t) \/ RemUnlock(t) \/ RemSlots(t)
             \/ RemCancel(t) \/ Release(t)
Look(t)   == \/ LookCall(t) \/ FullLock(t) \/ EmptyLock(t)
             \/ FullTest(t) \/ EmptyTest(t) \/ FullUnlock(t) \/ EmptyUnlock(t)

Next == \E t \in Threads : Insert(t) \/ Remove(t) \/ Look(t)

Spec == Init /\ [][Next]_vars

(* A thread inside the package keeps running, and a semaphore that stays     *)
(* positive admits one of its waiters, whichever: sem_wait keeps no order, so *)
(* a newcomer may overtake a waiter any number of times.  Calls,             *)
(* cancellations and what the caller does with its item are not fair.        *)
Steps(t) == \/ InsBump(t) \/ InsStore(t) \/ InsUnlock(t) \/ InsItems(t)
            \/ RemBump(t) \/ RemLoad(t) \/ RemUnlock(t) \/ RemSlots(t)
            \/ FullTest(t) \/ EmptyTest(t) \/ FullUnlock(t) \/ EmptyUnlock(t)
Locks(t) == InsLock(t) \/ RemLock(t) \/ FullLock(t) \/ EmptyLock(t)
Fairness == /\ \A t \in Threads : WF_vars(Steps(t))
            /\ WF_vars(\E t \in Threads : InsSlots(t))
            /\ WF_vars(\E t \in Threads : RemItems(t))
            /\ WF_vars(\E t \in Threads : Locks(t))
FairSpec == Spec /\ Fairness

-----------------------------------------------------------------------------
(* PROPERTIES *)

(* The items in the buffer, oldest first.  An item is in from its store to  *)
(* its load: the thread between ++rear and the store, or between ++front    *)
(* and the load, is discounted.                                             *)
Oldest == front - Count({"rem_load"})
Newest == rear - Count({"ins_store"})
Queue  == [i \in 1 .. Newest - Oldest |-> buf[(Oldest + i) % N]]

TypeOK == /\ buf \in [0 .. N - 1 -> Items \cup {Zero}]
          /\ front \in -IntMax - 1 .. IntMax
          /\ rear \in -IntMax - 1 .. IntMax
          /\ mutex \in Nat /\ slots \in Nat /\ items \in Nat
          /\ at \in [Threads -> Labels]
          /\ item \in [Threads -> SUBSET (Items \cup {Zero})]
          /\ res \in [Threads -> BOOLEAN]
          /\ calls \in 0 .. MaxInsert

(* "Protects accesses to buf" (line 14): every access to buf, front and     *)
(* rear, those of isFULL and isEMPTY included, is made by one thread at a   *)
(* time.                                                                    *)
MutualExclusion == \A t, u \in At(CS) : t = u

(* What the semaphores count: every unit of slots and of items is either    *)
(* available, or matched by an item in the buffer, or carried by a thread   *)
(* between its P and the matching V; so none is lost or made up when        *)
(* inserts, removes and cancelled removes overlap.                          *)
SlotsCount == slots + Count({"ins_mutex", "ins_bump", "ins_store"})
                    + Count({"rem_unlock", "rem_slots"}) + (Newest - Oldest) = N
ItemsCount == items + Count({"rem_mutex", "rem_bump", "rem_load"})
                    + Count({"ins_unlock", "ins_items"}) = Newest - Oldest
UnitsExact == SlotsCount /\ ItemsCount

(* The array never holds more than n items nor fewer than none: no insert   *)
(* overwrites an item not yet removed, no remove takes a stale one.         *)
NoOverrun == 0 <= rear - front /\ rear - front <= N

(* The answer isFULL (isEMPTY) is about to return is true of the queue as   *)
(* long as the thread holds the lock: no other thread is half-way through   *)
(* an insert or a remove then.                                              *)
LookExact == \A t \in Threads :
                /\ at[t] = "full_unlock"  => (res[t] <=> Len(Queue) = N)
                /\ at[t] = "empty_unlock" => (res[t] <=> Queue = <<>>)

(* Insert and remove appear to their callers as the indivisible Put and     *)
(* Take of a FIFO queue of capacity n: nothing is lost, duplicated or       *)
(* reordered.                                                               *)
BQ == INSTANCE BoundedQueue WITH queue <- Queue, hand <- item
FIFO == BQ!Spec

(* No wake-up is lost: threads do not wait in P(items) for ever beside an    *)
(* item, nor in P(slots) beside a free cell, unless one of them is let       *)
(* through.  (Which one it is, sem_wait does not say.)                       *)
NoLostWakeup ==
    /\ At({"rem_items"}) # {} /\ Queue # <<>>
         ~> At({"rem_items"}) = {} \/ Queue = <<>> \/ At({"rem_mutex"}) # {}
    /\ At({"ins_slots"}) # {} /\ Len(Queue) < N
         ~> At({"ins_slots"}) = {} \/ Len(Queue) = N \/ At({"ins_mutex"}) # {}

(* The lock is always handed on, also while change_thread polls isFULL and   *)
(* isEMPTY without a pause: somebody waiting for it gets it.  Only an endless *)
(* succession of other calls can keep one thread from it for ever (here, with *)
(* MaxInsert inserts, of polls): once they stop, every thread past its wait   *)
(* for a slot or an item leaves the package.                                 *)
Polled == At({"full_mutex", "empty_mutex"} \cup LookCS) # {}
Leaves ==
    /\ At({"ins_mutex", "rem_mutex", "full_mutex", "empty_mutex"}) # {} ~> At(CS) # {}
    /\ <>[]~Polled => \A t \in Threads :
                          at[t] \in {"ins_mutex", "rem_mutex"} ~> at[t] = "out"
=============================================================================
