------------------------------- MODULE MemLib -------------------------------
(***************************************************************************)
(* The memory both allocators of src/vm work in: the heap of memlib.c as   *)
(* 4-byte words at their byte offsets, and the widths of C's integers.     *)
(* A word is a block tag [size, alloc, prev] or Junk: whatever a client,   *)
(* or nobody, wrote there.                                                 *)
(***************************************************************************)
EXTENDS Integers, FiniteSets, FiniteSetsExt

CONSTANTS MAX_HEAP,    \* bytes of the heap; a multiple of 4
          CHUNKSIZE,   \* extend the heap by this amount (bytes)
          UINT_MOD,    \* number of values of an unsigned int (and of an int)
          SIZE_MOD,    \* number of values of a size_t
          Requests     \* sizes asked for

WSIZE == 4
DSIZE == 8

ASSUME SizesAssumption ==
    /\ {MAX_HEAP, CHUNKSIZE, UINT_MOD, SIZE_MOD} \subseteq Nat \ {0}
    /\ MAX_HEAP % WSIZE = 0 /\ 4 * WSIZE <= MAX_HEAP /\ 2 * MAX_HEAP <= UINT_MOD
    /\ CHUNKSIZE % DSIZE = 0 /\ CHUNKSIZE < UINT_MOD
    /\ UINT_MOD % DSIZE = 0 /\ SIZE_MOD % UINT_MOD = 0
(* What is asked for, rounded up, is an unsigned int: nothing checks it, and  *)
(* a larger size would be cut when it is packed or handed to mem_sbrk.        *)
ASSUME RequestsAssumption == Requests \subseteq 0 .. UINT_MOD - 2 * DSIZE

NULL  == 0
FirstBlock == 2 * WSIZE                       \* heap_listp after mm_init

Words == {4 * k : k \in 0 .. (MAX_HEAP \div 4) - 1}
Junk  == [size |-> 0, alloc |-> -1, prev |-> -1]
Tag(size, alloc, prev) == [size |-> size % UINT_MOD, alloc |-> alloc, prev |-> prev]

(* GET and PUT; outside the heap, a load finds junk and a store is lost. *)
Get(h, p)    == IF p \in Words THEN h.mem[p] ELSE Junk
Put(h, p, v) == IF p \in Words THEN [h EXCEPT !.mem[p] = v] ELSE h

(* The macros on a block pointer. *)
Size(h, bp)  == Get(h, bp - WSIZE).size
Alloc(h, bp) == Get(h, bp - WSIZE).alloc
Hdrp(bp)     == bp - WSIZE
Ftrp(h, bp)  == bp + Size(h, bp) - DSIZE
Next_(h, bp) == bp + Size(h, bp)
Prev_(h, bp) == bp - Get(h, bp - DSIZE).size

(* mem_sbrk takes an int: what it is handed is cut to that width. *)
ToInt(x) == ((x + UINT_MOD \div 2) % UINT_MOD) - UINT_MOD \div 2
SbrkFails(h, incr) == ToInt(incr) < 0 \/ h.brk + ToInt(incr) > MAX_HEAP

(* The blocks NEXT_BLKP leads through from bp until a size of 0. *)
Walk(h, from) ==
    LET w[bp \in 0 .. MAX_HEAP + UINT_MOD] ==
            IF Size(h, bp) = 0 THEN {} ELSE {bp} \cup w[Next_(h, bp)]
    IN  w[from]
(* Where that walk ends. *)
WalkEnd(h, from) ==
    LET w[bp \in 0 .. MAX_HEAP + UINT_MOD] ==
            IF Size(h, bp) = 0 THEN bp ELSE w[Next_(h, bp)]
    IN  w[from]

Free(h, bp) == Alloc(h, bp) = 0
Fits(h, bps, asize) == {bp \in bps : Free(h, bp) /\ asize <= Size(h, bp)}

(* The client writes the bytes it asked for. *)
Written(h, bp, size) ==
    [h EXCEPT !.mem = [p \in Words |-> IF bp <= p /\ p < bp + size THEN Junk ELSE @[p]]]

(* The memory mem_init obtains, before the first mem_sbrk. *)
EmptyHeap == [mem |-> [p \in Words |-> Junk], brk |-> 0, rover |-> 0]
=============================================================================
