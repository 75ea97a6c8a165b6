---------------------------- MODULE BoundedQueue ----------------------------
(***************************************************************************)
(* What the sbuf package of src/concurrent/server1238.c promises its       *)
(* callers ("Create an empty, bounded, shared FIFO buffer with n slots"):  *)
(* items are handed from thread to thread through a FIFO queue of at most  *)
(* N items, each Put and each Take being one indivisible step.             *)
(***************************************************************************)
EXTENDS Naturals, Sequences

CONSTANTS Threads,   \* the threads that call the buffer
          Items,     \* what is queued (connection descriptors)
          N          \* capacity of the buffer

VARIABLES queue,     \* the queued items, oldest first
          hand       \* hand[t]: the items thread t owns outside the queue

vars == <<queue, hand>>

Init == queue = <<>> /\ hand = [t \in Threads |-> {}]

(* A thread obtains an item from outside (accept) or is done with it. *)
Obtain(t, x) == /\ hand[t] = {}
                /\ hand' = [hand EXCEPT ![t] = {x}]
                /\ UNCHANGED queue
Dispose(t)   == /\ hand[t] # {}
                /\ hand' = [hand EXCEPT ![t] = {}]
                /\ UNCHANGED queue

Put(t) == /\ Len(queue) < N
          /\ \E x \in hand[t] : queue' = Append(queue, x)
          /\ hand' = [hand EXCEPT ![t] = {}]

Take(t) == /\ hand[t] = {}
           /\ queue # <<>>
           /\ hand' = [hand EXCEPT ![t] = {Head(queue)}]
           /\ queue' = Tail(queue)

Next == \E t \in Threads : \/ \E x \in Items : Obtain(t, x)
                           \/ Dispose(t)
                           \/ Put(t)
                           \/ Take(t)

Spec == Init /\ [][Next]_vars
=============================================================================
